---- MODULE Spec2Model ----
(***************************************************************************)
(* Model of lfquant/__init__.py: the LFQ quantizer (class LFQ), its lazy   *)
(* mode/codebook initialisation (init_books), the three entropy            *)
(* estimators' control flow and the orchestrator LFQ.run.                  *)
(*                                                                         *)
(* Tensors are modelled for one sample (B = 1): x is a sequence of S       *)
(* positions, each a sequence of d integer coordinates.  Probabilities and *)
(* entropies are real numbers the model does not compute; the model keeps  *)
(* the control flow of the estimators (which chunk of which subbook is     *)
(* folded, with which normaliser) and the probability mass folded, as an   *)
(* exact fraction.  The loss weights, temperature, eps and the debug       *)
(* output do not enter any modelled value.  self.mean_probs, which         *)
(* calc_entro_by_batch keeps on the instance and zeroes on every call, is  *)
(* part of est.                                                            *)
(***************************************************************************)
EXTENDS Integers, Sequences, FiniteSets, TLC

(* ------------------------------ bounds -------------------------------- *)
\* bit-widths 1..MaxD of the sequential and the threaded specification
MaxD == 2
\* sequence lengths 1..MaxS
MaxS == 2
\* chunk sizes 1..MaxSplit
MaxSplit == 2
\* bit-widths 1..MaxWidth of the specification of init_books alone
MaxWidth == 23
\* threads 1..NumThreads calling run on one instance
NumThreads == 2

(* ------------------------- program constants -------------------------- *)
\* min(21, self.d) in init_books
SubbookCapBits == 21
\* significand width of torch float32, the dtype of .float()
FloatBits == 24
\* mode_delimiter=(19, 26), the constructor's default
DefaultDelimiter == <<19, 26>>

None == <<"None">>
\* FZERO = torch.tensor(0.0)
FZERO == <<"float", 0, 1>>
\* class LFQMode(Enum)
VANILLA == <<"LFQMode", "VANILLA">>
X_BATCH == <<"LFQMode", "X_BATCH">>
BLOCK == <<"LFQMode", "BLOCK">>
LFQMode == {VANILLA, X_BATCH, BLOCK}

VARIABLES
    d, mode_delimiter, x_split,      \* configuration, fixed by __init__
    mode, book_t, subbook_size, num_subbooks, subbook_ranges,
    indices, commit_loss,            \* self.indices, self.commit_loss
    call,                            \* arguments of the latest call of run
    result,                          \* what the latest call of run returned or raised
    est,                             \* what the estimator of the latest call folded
    init_calls,                      \* number of executions of init_books' body
    pc                               \* threaded specification: each thread's position

config == <<d, mode_delimiter, x_split>>
books == <<mode, book_t, subbook_size, num_subbooks, subbook_ranges>>
vars == <<d, mode_delimiter, x_split, mode, book_t, subbook_size, num_subbooks,
          subbook_ranges, indices, commit_loss, call, result, est, init_calls,
          pc>>

Min(a, b) == IF a < b THEN a ELSE b

\* self.k = 2**d
K(dd) == 2 ^ dd

(* ------------------------------ init_books ---------------------------- *)
\* The transposed codebook book.float().t(): d rows, k columns.  The model
\* keeps its shape; column i is BookColumn(dd, i).
BookT(dd) == <<"book_t", dd, K(dd)>>

\* Column i of book_t: indices >> arange(d-1, -1, -1), remainder 2, 0 -> -1.
BookColumn(dd, i) ==
    [j \in 1..dd |-> IF (i \div (2 ^ (dd - j))) % 2 = 0 THEN -1 ELSE 1]

\* The ranges counted from 1 instead of 0.
SubbookRanges_shifted(size, num) ==
    [i \in 1..num |-> <<i * size, (i + 1) * size>>]

\* [(i * size, (i + 1) * size) for i in range(num)]
SubbookRanges(size, num) ==
    [i \in 1..num |-> <<(i - 1) * size, i * size>>]

\* init_books with "<=" for the first "<".
init_books_le(dd, md) ==
    IF dd <= md[1]
    THEN [mode |-> VANILLA, book_t |-> BookT(dd), subbook_size |-> None,
          num_subbooks |-> None, subbook_ranges |-> None]
    ELSE IF dd < md[2]
    THEN [mode |-> X_BATCH, book_t |-> BookT(dd), subbook_size |-> None,
          num_subbooks |-> None, subbook_ranges |-> None]
    ELSE LET size == 2 ^ (Min(SubbookCapBits, dd) - 1)
             num == K(dd) \div size
         IN [mode |-> BLOCK, book_t |-> None, subbook_size |-> <<"int", size>>,
             num_subbooks |-> <<"int", num>>,
             subbook_ranges |-> <<"list", SubbookRanges(size, num)>>]

\* The fields init_books assigns, for bit-width dd and thresholds md.
init_books(dd, md) ==
    IF dd < md[1]
    THEN [mode |-> VANILLA, book_t |-> BookT(dd), subbook_size |-> None,
          num_subbooks |-> None, subbook_ranges |-> None]
    ELSE IF dd < md[2]
    THEN [mode |-> X_BATCH, book_t |-> BookT(dd), subbook_size |-> None,
          num_subbooks |-> None, subbook_ranges |-> None]
    ELSE LET size == 2 ^ (Min(SubbookCapBits, dd) - 1)
             num == K(dd) \div size
         IN [mode |-> BLOCK, book_t |-> None, subbook_size |-> <<"int", size>>,
             num_subbooks |-> <<"int", num>>,
             subbook_ranges |-> <<"list", SubbookRanges(size, num)>>]

\* The instance's fields as they stand.
Books ==
    [mode |-> mode, book_t |-> book_t, subbook_size |-> subbook_size,
     num_subbooks |-> num_subbooks, subbook_ranges |-> subbook_ranges]

\* run without the test of self.mode: init_books on every call.
NeedsInit_always == TRUE

\* if self.mode is None: self.init_books(device)
NeedsInit == mode = None

(* ---------------------------- quantization ---------------------------- *)
\* q = torch.where(x > 0, 1, -1)
Quantize(x) ==
    [i \in 1..Len(x) |-> [j \in 1..Len(x[i]) |-> IF x[i][j] > 0 THEN 1 ELSE -1]]

\* q = x + (q - x).detach()
PassThrough(x, q) ==
    [i \in 1..Len(x) |-> [j \in 1..Len(x[i]) |-> x[i][j] + (q[i][j] - x[i][j])]]

\* tnf.mse_loss(x, q.detach(), reduction="none")
MseLoss(x, q) ==
    [i \in 1..Len(x) |->
        [j \in 1..Len(x[i]) |-> (x[i][j] - q[i][j]) * (x[i][j] - q[i][j])]]

RECURSIVE SumSeq(_)
SumSeq(s) == IF s = <<>> THEN 0 ELSE s[1] + SumSeq(Tail(s))

\* self.commit_loss.mean(): the sum over all coordinates and their number
TensorMean(t) ==
    <<"float", SumSeq([i \in 1..Len(t) |-> SumSeq(t[i])]),
               SumSeq([i \in 1..Len(t) |-> Len(t[i])])>>

(* --------------------------- index decoding --------------------------- *)
RECURSIVE BitLen(_)
BitLen(n) == IF n = 0 THEN 0 ELSE 1 + BitLen(n \div 2)

\* A non-negative integer rounded to float32: FloatBits significant bits,
\* round to nearest, ties to even.
RoundF32(n) ==
    LET bl == BitLen(n)
    IN IF bl <= FloatBits THEN n
       ELSE LET u == 2 ^ (bl - FloatBits)
                r == n % u
                lo == n - r
            IN IF 2 * r < u THEN lo
               ELSE IF 2 * r > u THEN lo + u
               ELSE IF (lo \div u) % 2 = 0 THEN lo ELSE lo + u

\* 2 ** torch.arange(n - 1, -1, -1).float()
PowersOf2(n) == [j \in 1..n |-> RoundF32(2 ^ (n - j))]

\* The orders in which a backend may accumulate the terms of a dot product:
\* first to last, last to first, or two interleaved partial sums added at
\* the end (vector lanes).
SumOrders == {"forward", "backward", "lanes"}

\* (acc is never negative: the test makes each partial sum be computed
\* before the next term is added)
RECURSIVE AccF32(_, _, _, _)
AccF32(b, p, js, acc) ==
    IF js = <<>> \/ acc < 0 THEN acc
    ELSE AccF32(b, p, Tail(js), RoundF32(acc + RoundF32(b[js[1]] * p[js[1]])))

\* binary_result.float() @ powers_of_2, accumulated in float32
DotF32(b, p, order) ==
    LET n == Len(b)
        fwd == [j \in 1..n |-> j]
        bwd == [j \in 1..n |-> n + 1 - j]
        odd == SelectSeq(fwd, LAMBDA j : j % 2 = 1)
        even == SelectSeq(fwd, LAMBDA j : j % 2 = 0)
    IN CASE order = "forward" -> AccF32(b, p, fwd, 0)
         [] order = "backward" -> AccF32(b, p, bwd, 0)
         [] order = "lanes" ->
                RoundF32(AccF32(b, p, odd, 0) + AccF32(b, p, even, 0))

\* binary_result = (q + 1) // 2
BinaryResult(q) ==
    [i \in 1..Len(q) |-> [j \in 1..Len(q[i]) |-> (q[i][j] + 1) \div 2]]

\* (binary_result.float() @ powers_of_2).long(), one index per position
DecodeIndices(q, order) ==
    LET b == BinaryResult(q)
    IN [i \in 1..Len(q) |-> DotF32(b[i], PowersOf2(Len(b[i])), order)]

(* ------------------------- entropy estimators ------------------------- *)
\* What an estimator did: the (subbook range, chunk) pairs it folded, in
\* order, each <<start, end, lo, hi>> for codewords [start, end) and
\* positions [lo, hi); the probability mass of the final mean-probability
\* vector and the weight of entro_mean, each a fraction <<num, den>>.
NoEst == [estimator |-> "none", folds |-> <<>>, mass |-> <<0, 1>>,
          entro |-> <<0, 1>>]

Raised(what, e) == [raised |-> what, est |-> e]
Returned(e) == [raised |-> "", est |-> e]

\* x[:, i * self.x_split : (i + 1) * self.x_split], i counted from 0
ChunkLo(x, i) == Min(i * x_split, Len(x))
ChunkHi(x, i) == Min((i + 1) * x_split, Len(x))

\* book_entropy(x, book_t, eps) of lfquant/codebook.py: the whole codebook
\* scored in one product, any sequence length.
book_entropy(x, bt) ==
    IF bt = None THEN Raised("TypeError", NoEst)
    ELSE Returned([estimator |-> "vanilla",
                   folds |-> << <<0, bt[3], 0, Len(x)>> >>,
                   mass |-> <<Len(x), Len(x)>>,
                   entro |-> <<Len(x), Len(x)>>])

calc_entro_vanilla(st, x) == book_entropy(x, st.book_t)

\* The loop of calc_entro_by_batch from chunk i on: each chunk adds its mean
\* probability vector (mass 1) and its entropies over x.size(-2).
RECURSIVE BatchLoop(_, _, _, _, _)
BatchLoop(st, x, i, num_splits, e) ==
    IF i >= num_splits THEN Returned(e)
    ELSE IF st.book_t = None THEN Raised("TypeError", e)
    ELSE LET lo == ChunkLo(x, i)
             hi == ChunkHi(x, i)
         IN BatchLoop(st, x, i + 1, num_splits,
               [e EXCEPT !.folds = Append(@, <<0, st.book_t[3], lo, hi>>),
                         !.mass = <<@[1] + 1, @[2]>>,
                         !.entro = <<@[1] + (hi - lo), Len(x)>>])

\* calc_entro_by_batch without its assert.
calc_entro_by_batch_noassert(st, x) ==
    LET num_splits == Len(x) \div x_split
        r == BatchLoop(st, x, 0, num_splits,
                       [NoEst EXCEPT !.estimator = "batch"])
    IN IF r.raised # "" THEN r
       ELSE Returned([r.est EXCEPT !.mass = <<@[1], num_splits>>])

calc_entro_by_batch(st, x) ==
    IF Len(x) % x_split # 0 THEN Raised("AssertionError", NoEst)
    ELSE LET num_splits == Len(x) \div x_split
             r == BatchLoop(st, x, 0, num_splits,
                            [NoEst EXCEPT !.estimator = "batch"])
         IN IF r.raised # "" THEN r
            \* self.mean_probs /= num_splits
            ELSE Returned([r.est EXCEPT !.mass = <<@[1], num_splits>>])

\* _block dividing by the sequence length alone.
_block_by_length(st, x, i, range, e) ==
    LET lo == ChunkLo(x, i)
        hi == ChunkHi(x, i)
        denorm == Len(x)
    IN [e EXCEPT !.folds = Append(@, <<range[1], range[2], lo, hi>>),
                 !.mass = <<@[1] + (hi - lo), denorm>>,
                 !.entro = <<@[1] + (hi - lo), denorm>>]

\* _block: chunk i of x against one subbook; every position's softmax over
\* the subbook has mass 1; both totals are divided by denorm.
_block(st, x, i, range, e) ==
    LET lo == ChunkLo(x, i)
        hi == ChunkHi(x, i)
        denorm == Len(x) * Len(st.subbook_ranges[2])
    IN [e EXCEPT !.folds = Append(@, <<range[1], range[2], lo, hi>>),
                 !.mass = <<@[1] + (hi - lo), denorm>>,
                 !.entro = <<@[1] + (hi - lo), denorm>>]

RECURSIVE ChunkLoop(_, _, _, _, _, _)
ChunkLoop(st, x, range, i, num_splits, e) ==
    IF i >= num_splits THEN e
    ELSE ChunkLoop(st, x, range, i + 1, num_splits, _block(st, x, i, range, e))

RECURSIVE RangeLoop(_, _, _, _)
RangeLoop(st, x, ranges, e) ==
    IF ranges = <<>> THEN e
    ELSE RangeLoop(st, x, Tail(ranges),
                   ChunkLoop(st, x, ranges[1], 0, Len(x) \div x_split, e))

calc_entro_block(st, x) ==
    IF Len(x) % x_split # 0 THEN Raised("AssertionError", NoEst)
    ELSE IF st.subbook_size = None \/ st.subbook_ranges = None
    THEN Raised("TypeError", NoEst)
    ELSE Returned(RangeLoop(st, x, st.subbook_ranges[2],
                            [NoEst EXCEPT !.estimator = "block"]))

\* The dispatch of run on self.mode.
Dispatch(st, x) ==
    CASE st.mode = VANILLA -> calc_entro_vanilla(st, x)
      [] st.mode = X_BATCH -> calc_entro_by_batch(st, x)
      [] st.mode = BLOCK -> calc_entro_block(st, x)
      [] OTHER -> Raised("ValueError", NoEst)

(* --------------------------------- run -------------------------------- *)
NoCall == [x |-> <<>>, return_indices |-> FALSE, training |-> FALSE]
NoResult == [raised |-> "", value |-> <<>>]

EntroMean(e) == <<"entropy", "entro_mean", e.estimator>>
MeanEntro(e) == <<"entropy", "mean_entro", e.estimator>>
\* entro_loss = self.alpha * entro_mean - self.alpha * mean_entro
EntroLoss(e) == <<"entropy", "entro_loss", e.estimator>>

\* The tuple of the "if not training" return.
InferenceResult(q) == <<q, FZERO, FZERO, FZERO, FZERO, FZERO>>

\* self.indices after "if return_indices: self.indices = ..."
IndicesAfter(qp, return_indices, order) ==
    IF return_indices THEN <<"long", DecodeIndices(qp, order)>> ELSE indices

\* run from "q = torch.where(...)" to its return, on the fields st.
RunTail(st, x, return_indices, training, order) ==
    LET q == Quantize(x)
        e == Dispatch(st, x)
        qp == PassThrough(x, q)
        closs == MseLoss(x, qp)
        idx == IndicesAfter(qp, return_indices, order)
    IN /\ call' = [x |-> x, return_indices |-> return_indices,
                   training |-> training]
       /\ IF ~training
          THEN /\ result' = [raised |-> "", value |-> InferenceResult(q)]
               /\ est' = NoEst
               /\ UNCHANGED <<indices, commit_loss>>
          ELSE IF e.raised # ""
          THEN /\ result' = [raised |-> e.raised, value |-> <<>>]
               /\ est' = e.est
               /\ UNCHANGED <<indices, commit_loss>>
          ELSE /\ commit_loss' = <<"float", closs>>
               /\ indices' = idx
               /\ est' = e.est
               /\ result' = [raised |-> "",
                             value |-> <<qp, EntroMean(e.est), MeanEntro(e.est),
                                         EntroLoss(e.est), idx,
                                         TensorMean(closs)>>]

\* One call of run, start to end, with no other call in progress.
Run(x, return_indices, training, order) ==
    LET st == IF NeedsInit THEN init_books(d, mode_delimiter) ELSE Books
    IN /\ \A t \in DOMAIN pc : pc[t] = "idle"
       /\ mode' = st.mode
       /\ book_t' = st.book_t
       /\ subbook_size' = st.subbook_size
       /\ num_subbooks' = st.num_subbooks
       /\ subbook_ranges' = st.subbook_ranges
       /\ init_calls' = IF NeedsInit THEN init_calls + 1 ELSE init_calls
       /\ RunTail(st, x, return_indices, training, order)
       /\ UNCHANGED <<config, pc>>

(* ------------------------------- inputs ------------------------------- *)
\* A position whose coordinates in ps are positive (1) and whose other
\* coordinates are the boundary 0 (odd coordinates) or -1 (even ones).
Pattern(dd, ps) ==
    [j \in 1..dd |-> IF j \in ps THEN 1 ELSE IF j % 2 = 1 THEN 0 ELSE -1]

PatSeq(dd) ==
    <<Pattern(dd, {}), Pattern(dd, {1})>>

\* Batches of 1..MaxS positions running through the patterns from any start.
Inputs(dd) ==
    {[i \in 1..S |-> PatSeq(dd)[((p + i) % Len(PatSeq(dd))) + 1]] :
        S \in 1..MaxS, p \in 0..(Len(PatSeq(dd)) - 1)}

\* The accumulation order matters only to a call that decodes indices.
Orders(return_indices, training) ==
    IF return_indices /\ training THEN SumOrders ELSE {"forward"}

Delimiters(lo, hi) == {md \in (lo..hi) \X (lo..hi) : md[1] <= md[2]}

Threads == 1..NumThreads

\* LFQ.__init__: every cached field None.
Fresh ==
    /\ mode = None /\ book_t = None /\ subbook_size = None
    /\ num_subbooks = None /\ subbook_ranges = None
    /\ indices = None /\ commit_loss = None
    /\ call = NoCall /\ result = NoResult /\ est = NoEst
    /\ init_calls = 0
    /\ pc = [t \in Threads |-> "idle"]

(* --------------------- sequential calls, small widths ----------------- *)
Init ==
    /\ d \in 1..MaxD
    /\ mode_delimiter \in Delimiters(d, d + 1)
    /\ x_split \in 1..MaxSplit
    /\ Fresh

Next ==
    \E x \in Inputs(d), return_indices \in BOOLEAN, training \in BOOLEAN :
        \E order \in Orders(return_indices, training) :
            Run(x, return_indices, training, order)

Spec == Init /\ [][Next]_vars

(* ----------------------- init_books on its own ------------------------ *)
\* Lines 155-156 of run: the first call's "self.init_books(device)".
InitBooks ==
    LET st == init_books(d, mode_delimiter)
    IN /\ NeedsInit
       /\ mode' = st.mode
       /\ book_t' = st.book_t
       /\ subbook_size' = st.subbook_size
       /\ num_subbooks' = st.num_subbooks
       /\ subbook_ranges' = st.subbook_ranges
       /\ init_calls' = init_calls + 1
       /\ UNCHANGED <<config, indices, commit_loss, call, result, est, pc>>

InitWidths ==
    /\ d \in 1..MaxWidth
    /\ mode_delimiter \in Delimiters(0, MaxWidth + 1)
    /\ x_split \in 1..MaxSplit
    /\ Fresh

SpecBooks == InitWidths /\ [][InitBooks]_vars

(* ------------- index decoding at the float32 significand -------------- *)
DecodePatSeq(dd) ==
    <<Pattern(dd, {}), Pattern(dd, {1}), Pattern(dd, {dd}),
      Pattern(dd, {1, dd}), Pattern(dd, 1..dd)>>

DecodeInputs(dd) ==
    {[i \in 1..S |-> DecodePatSeq(dd)[((p + i) % Len(DecodePatSeq(dd))) + 1]] :
        S \in 1..MaxS, p \in 0..(Len(DecodePatSeq(dd)) - 1)}

\* Bit-widths at and just above FloatBits, in the modes that materialise
\* the codebook: X_BATCH under the default thresholds, VANILLA under
\* thresholds above the width.
InitDecode ==
    /\ d \in {FloatBits, FloatBits + 1}
    /\ mode_delimiter \in
          {DefaultDelimiter, <<DefaultDelimiter[2], DefaultDelimiter[2]>>}
    /\ x_split \in 1..MaxSplit
    /\ Fresh

\* Training calls that request indices.
NextDecode ==
    \E x \in DecodeInputs(d), order \in SumOrders : Run(x, TRUE, TRUE, order)

SpecDecode == InitDecode /\ [][NextDecode]_vars

(* ------------------- calls of run from several threads ---------------- *)
\* Line 155: "if self.mode is None" read by thread t.
TestMode(t) ==
    /\ pc[t] = "idle"
    /\ pc' = [pc EXCEPT ![t] = IF NeedsInit THEN "init_books" ELSE "quantize"]
    /\ UNCHANGED <<config, books, indices, commit_loss, call, result, est,
                   init_calls>>

\* init_books up to "self.mode = ..." (lines 49-50, 59-60, 69-70).
SetMode(t) ==
    LET st == init_books(d, mode_delimiter)
    IN /\ pc[t] = "init_books"
       /\ mode' = st.mode
       /\ init_calls' = init_calls + 1
       /\ pc' = [pc EXCEPT ![t] = IF st.mode = BLOCK THEN "size" ELSE "book"]
       /\ UNCHANGED <<config, book_t, subbook_size, num_subbooks,
                      subbook_ranges, indices, commit_loss, call, result, est>>

\* "self.book_t = book.float().t()" (lines 51-58, 61-68).
SetBook(t) ==
    /\ pc[t] = "book"
    /\ book_t' = init_books(d, mode_delimiter).book_t
    /\ pc' = [pc EXCEPT ![t] = "quantize"]
    /\ UNCHANGED <<config, mode, subbook_size, num_subbooks, subbook_ranges,
                   indices, commit_loss, call, result, est, init_calls>>

\* "self.subbook_size = ..." (line 71).
SetSize(t) ==
    /\ pc[t] = "size"
    /\ subbook_size' = init_books(d, mode_delimiter).subbook_size
    /\ pc' = [pc EXCEPT ![t] = "num"]
    /\ UNCHANGED <<config, mode, book_t, num_subbooks, subbook_ranges,
                   indices, commit_loss, call, result, est, init_calls>>

\* "self.num_subbooks = ..." (line 72).
SetNum(t) ==
    /\ pc[t] = "num"
    /\ num_subbooks' = init_books(d, mode_delimiter).num_subbooks
    /\ pc' = [pc EXCEPT ![t] = "ranges"]
    /\ UNCHANGED <<config, mode, book_t, subbook_size, subbook_ranges,
                   indices, commit_loss, call, result, est, init_calls>>

\* "self.subbook_ranges = [...]" (lines 73-76).
SetRanges(t) ==
    /\ pc[t] = "ranges"
    /\ subbook_ranges' = init_books(d, mode_delimiter).subbook_ranges
    /\ pc' = [pc EXCEPT ![t] = "quantize"]
    /\ UNCHANGED <<config, mode, book_t, subbook_size, num_subbooks,
                   indices, commit_loss, call, result, est, init_calls>>

\* Lines 157-198 by thread t, on the fields as they stand.  The arguments
\* are the thread's own and are first read here.
Body(t, x, return_indices, training, order) ==
    /\ pc[t] = "quantize"
    /\ RunTail(Books, x, return_indices, training, order)
    /\ pc' = [pc EXCEPT ![t] = "idle"]
    /\ UNCHANGED <<config, books, init_calls>>

NextThreads ==
    \E t \in Threads :
        \/ TestMode(t)
        \/ SetMode(t)
        \/ SetBook(t)
        \/ SetSize(t)
        \/ SetNum(t)
        \/ SetRanges(t)
        \/ \E x \in Inputs(d), return_indices \in BOOLEAN,
              training \in BOOLEAN :
               \E order \in Orders(return_indices, training) :
                   Body(t, x, return_indices, training, order)

SpecThreads == Init /\ [][NextThreads]_vars

(* ============================== claims ================================ *)
Called == call.x # <<>>
ReturnedOk == Called /\ result.raised = ""
SeqLen == Len(call.x)

\* C1: a call with training=False returns six slots, the four loss slots
\* exactly zero and the index slot None, whatever return_indices is.
C1_InferenceSlots ==
    (Called /\ ~call.training) =>
        /\ result.raised = ""
        /\ Len(result.value) = 6
        /\ result.value[1] = Quantize(call.x)
        /\ \A n \in {2, 3, 4, 6} : result.value[n] = FZERO
        /\ result.value[5] = None

\* C2: the result of a call depends on that call's arguments only: a
\* training call with return_indices=False returns None in the index slot,
\* whatever earlier calls requested.
C2_NoIndicesUnlessRequested ==
    (ReturnedOk /\ call.training /\ ~call.return_indices) =>
        result.value[5] = None

\* C3: init_books selects VANILLA iff d < t0, X_BATCH iff t0 <= d < t1,
\* BLOCK iff d >= t1; the first two set book_t (d rows, 2^d columns) and
\* leave the subbook fields None, BLOCK leaves book_t None and sets the
\* subbook fields.
C3_ModeSelection ==
    mode # None =>
        /\ mode \in LFQMode
        /\ (mode = VANILLA) <=> (d < mode_delimiter[1])
        /\ (mode = X_BATCH) <=> (mode_delimiter[1] <= d /\ d < mode_delimiter[2])
        /\ (mode = BLOCK) <=> (d >= mode_delimiter[2])
        /\ mode \in {VANILLA, X_BATCH} =>
              /\ book_t # None /\ book_t[2] = d /\ book_t[3] = 2 ^ d
              /\ subbook_size = None /\ num_subbooks = None
              /\ subbook_ranges = None
        /\ mode = BLOCK =>
              /\ book_t = None
              /\ subbook_size # None /\ num_subbooks # None
              /\ subbook_ranges # None

\* C3's case: a width on the first threshold, below the second.
C3_Witness ==
    /\ mode = X_BATCH
    /\ d = mode_delimiter[1]
    /\ d < mode_delimiter[2]
    /\ book_t # None

\* C4: the mode is selected by the first call and init_books never runs
\* again: a call on an uninitialised instance runs init_books once and
\* leaves a mode of LFQMode, a call on an initialised one leaves the mode,
\* the codebook and the subbook fields as they were, and no call raises
\* "Wrong LFQMode".
C4_InitOnce ==
    [][/\ mode = None => (mode' \in LFQMode /\ init_calls' = 1)
       /\ mode # None => (UNCHANGED books /\ init_calls' = init_calls)
       /\ result'.raised # "ValueError"]_vars

\* C4's case: one initialisation, and a later call, here a failing one,
\* after a call that stored indices.
C4_Witness ==
    /\ init_calls = 1
    /\ mode \in LFQMode
    /\ indices # None
    /\ result.raised = "AssertionError"

\* C5: in BLOCK mode subbook_size = 2^(min(21, d) - 1) divides k = 2^d,
\* num_subbooks = k / subbook_size, and the ranges are num_subbooks
\* contiguous ranges of that size, pairwise disjoint, from 0 to k; d = 20
\* gives 2 subbooks of 2^19.
C5_SubbookPartition ==
    mode = BLOCK =>
        LET size == subbook_size[2]
            num == num_subbooks[2]
            ranges == subbook_ranges[2]
            k == 2 ^ d
        IN /\ size = 2 ^ (Min(SubbookCapBits, d) - 1)
           /\ k % size = 0
           /\ num * size = k
           /\ Len(ranges) = num
           /\ ranges[1][1] = 0
           /\ ranges[num][2] = k
           /\ \A i \in 1..num : ranges[i][2] - ranges[i][1] = size
           /\ \A i \in 1..num : \A j \in 1..num :
                 i < j => ranges[i][2] <= ranges[j][1]
           /\ \A i \in 1..(num - 1) : ranges[i][2] = ranges[i + 1][1]
           /\ k <= 16 =>
                 UNION {ranges[i][1]..(ranges[i][2] - 1) : i \in 1..num}
                    = 0..(k - 1)
           /\ d = 20 => (num = 2 /\ size = 2 ^ 19)

\* C5's case: the scenario d = 20 in BLOCK mode.
C5_Witness ==
    /\ mode = BLOCK
    /\ d = 20
    /\ Len(subbook_ranges[2]) = 2

\* The big-endian value of a row of bits, in exact arithmetic.
ExactIndex(bits) ==
    SumSeq([j \in 1..Len(bits) |-> bits[j] * (2 ^ (Len(bits) - j))])

\* C6: in VANILLA and X_BATCH modes a training call with
\* return_indices=True returns, for every position, an index in [0, k)
\* whose codebook column is that position's quantized pattern.
C6_DecodeRoundTrip ==
    (ReturnedOk /\ call.training /\ call.return_indices
        /\ mode \in {VANILLA, X_BATCH}) =>
        \A i \in 1..SeqLen :
            /\ result.value[5][2][i] \in 0..(2 ^ d - 1)
            /\ BookColumn(d, result.value[5][2][i]) = result.value[1][i]

\* C7: a training call in X_BATCH or BLOCK mode whose sequence length is
\* not a multiple of x_split raises before anything is folded, returns no
\* tuple and leaves self.indices and self.commit_loss as they were; every
\* other call returns.
C7_ChunkPrecondition ==
    [][LET chunked == mode' \in {X_BATCH, BLOCK}
           bad == call'.training /\ chunked /\ Len(call'.x) % x_split # 0
       IN /\ bad => /\ result'.raised = "AssertionError"
                    /\ result'.value = <<>>
                    /\ est'.folds = <<>>
                    /\ est'.mass[1] = 0 /\ est'.entro[1] = 0
                    /\ indices' = indices
                    /\ commit_loss' = commit_loss
          /\ ~bad => (result'.raised = "" /\ Len(result'.value) = 6)]_vars

\* C7's case: a call failed on its length after a call that stored
\* indices and a commit loss.
C7_Witness ==
    /\ result.raised = "AssertionError"
    /\ call.training
    /\ SeqLen % x_split # 0
    /\ indices # None
    /\ commit_loss # None

\* C8: a training call that requests indices never returns a rounded
\* index: it returns each position's exact big-endian value or fails.
C8_NoSilentRounding ==
    (ReturnedOk /\ call.training /\ call.return_indices) =>
        \A i \in 1..SeqLen :
            result.value[5][2][i]
                = ExactIndex(BinaryResult(Quantize(call.x))[i])

\* What the mode read at the dispatch needs is assigned.
ModeReady ==
    /\ mode \in {VANILLA, X_BATCH} => book_t # None
    /\ mode = BLOCK => (subbook_size # None /\ subbook_ranges # None)

\* C9: with calls from several threads the body of init_books runs at
\* most once, and no thread is past "if self.mode is None", on its way to
\* the dispatch, with a mode set and what the mode needs unassigned.
C9_NoInitRace ==
    /\ init_calls <= 1
    /\ \A t \in Threads : (pc[t] = "quantize" /\ mode # None) => ModeReady

\* C10: a BLOCK-mode training call on a length divisible by x_split folds
\* every (subbook range, chunk) pair exactly once, the chunks being the
\* consecutive slices of x_split positions from 0 to S, each contribution
\* divided by S * num_subbooks, so that the final mean-probability vector
\* has mass 1.
C10_BlockFolds ==
    (ReturnedOk /\ call.training /\ mode = BLOCK) =>
        LET ranges == subbook_ranges[2]
            n == SeqLen \div x_split
        IN /\ SeqLen % x_split = 0
           /\ Len(est.folds) = Len(ranges) * n
           /\ \A r \in 1..Len(ranges) : \A c \in 0..(n - 1) :
                 Cardinality({f \in 1..Len(est.folds) :
                     est.folds[f] = <<ranges[r][1], ranges[r][2],
                                      c * x_split, (c + 1) * x_split>>}) = 1
           /\ \A r \in 1..Len(ranges) :
                 UNION {est.folds[f][3]..(est.folds[f][4] - 1) :
                          f \in {g \in 1..Len(est.folds) :
                                   est.folds[g][1] = ranges[r][1]}}
                    = 0..(SeqLen - 1)
           /\ est.mass[2] = SeqLen * Len(ranges)
           /\ est.mass[1] = est.mass[2]
           /\ est.entro = <<SeqLen * Len(ranges), SeqLen * Len(ranges)>>

\* C10's case: two subbooks, each folded over two chunks.
C10_Witness ==
    /\ ReturnedOk /\ call.training /\ mode = BLOCK
    /\ SeqLen \div x_split >= 2
    /\ Len(subbook_ranges[2]) >= 2
    /\ Len(est.folds) >= 4

====
